---- MODULE Spec2Model ----
(***************************************************************************)
(* A model of moltbook-cli: the configuration store (config.py), the HTTP  *)
(* client (api.py) and the command layer (cli.py).                         *)
(*                                                                         *)
(* Python values are modelled as follows.                                  *)
(*   - A str is a TLA+ string.  JSON scalars that are not strings are the  *)
(*     atoms JTrue, JFalse, JNull and numerals such as "15"; no modelled   *)
(*     user string equals one of these atoms.                              *)
(*   - A dict is the sequence of its <<key, value>> items in insertion     *)
(*     order, with pairwise distinct keys (Python dicts are ordered).      *)
(*   - A JSON text is a record [wf, pairs]: wf says whether the text       *)
(*     parses, pairs are the members of the top-level object as written,   *)
(*     where a key may occur more than once.                               *)
(*   - None, an unset environment variable and a raised exception are the  *)
(*     atoms None, Unset and the exception's name.                         *)
(***************************************************************************)
EXTENDS Integers, Sequences, FiniteSets, TLC

VARIABLES
    env,        \* value of MOLTBOOK_API_KEY in the process environment, or Unset
    file,       \* ~/.moltbook/config.json: [exists, text]
    file0,      \* history: the config file as it was at the start
    written,    \* history: per key, the value of its last completed write, or Never
    writes,     \* history: number of completed writes
    cfgOp,      \* the config.py function that ran last
    ret,        \* the str or None it returned, or the exception it raised
    loaded,     \* the dict the last load_config() returned
    apiOp,      \* the MoltbookClient method called last
    apiArgs,    \* its arguments
    sent,       \* the client.request calls it made, in order
    transport,  \* what the transport did with the request
    raised,     \* the exception the method propagated, or None
    result,     \* the dict the method returned
    cmd,        \* the CLI command this process runs, "none" before dispatch
    cliArgs,    \* its arguments and options
    as_json,    \* its --json flag
    pc,         \* where the command is
    client,     \* the command's MoltbookClient: "none", "open" or "closed"
    plan,       \* the client calls still to make inside the with block
    results,    \* the dicts the client calls returned, in order
    issued,     \* every request made, with the client's state when it was made
    exc,        \* the exception propagating out of the command, or None
    printed,    \* what the command wrote to the terminal, in order
    exitCode    \* the process's exit status, -1 while it runs

cfgVars == <<env, file, file0, written, writes, cfgOp, ret, loaded>>

apiVars == <<apiOp, apiArgs, sent, transport, raised, result>>

cliVars == <<cmd, cliArgs, as_json, pc, client, plan, results, issued, exc,
             printed, exitCode>>

vars == <<env, file, file0, written, writes, cfgOp, ret, loaded,
          apiOp, apiArgs, sent, transport, raised, result,
          cmd, cliArgs, as_json, pc, client, plan, results, issued, exc,
          printed, exitCode>>

-----------------------------------------------------------------------------
(* Atoms *)

None == "<None>"
Unset == "<unset>"
Never == "<never written>"
JTrue == "true"
JFalse == "false"
JNull == "null"
JSONDecodeError == "<JSONDecodeError>"

\* Python truthiness of a str, a JSON scalar or None ("0" is the number 0;
\* no modelled str that is tested for truth is "0").
Truthy(v) == v \notin {None, "", JFalse, JNull, "0"}

-----------------------------------------------------------------------------
(* dict and json *)

EmptyDict == << >>

DictKeys(d) == {d[i][1] : i \in 1..Len(d)}

DictHas(d, k) == k \in DictKeys(d)

\* d.get(k, default)
DictGet(d, k, default) ==
    IF DictHas(d, k)
    THEN LET i == CHOOSE j \in 1..Len(d) : d[j][1] = k IN d[i][2]
    ELSE default

\* d[k] = v: an existing key keeps its place, a new key goes last.
DictSet(d, k, v) ==
    IF DictHas(d, k)
    THEN [i \in 1..Len(d) |-> IF d[i][1] = k THEN <<k, v>> ELSE d[i]]
    ELSE Append(d, <<k, v>>)

MalformedText == [wf |-> FALSE, pairs |-> << >>]

\* json.dump(d, f) / the encoding of a JSON request body.
JsonDump(d) == [wf |-> TRUE, pairs |-> d]

RECURSIVE JsonObject(_)
\* The dict json.load builds from an object's members: inserted in order, so a
\* repeated key keeps its first place and its last value.
JsonObject(pairs) ==
    IF pairs = << >>
    THEN EmptyDict
    ELSE LET n == Len(pairs)
         IN  DictSet(JsonObject(SubSeq(pairs, 1, n - 1)), pairs[n][1], pairs[n][2])

\* json.load / response.json() raise on a text that is not JSON.
JsonRaises(text) == ~text.wf

JsonLoad(text) == JsonObject(text.pairs)

-----------------------------------------------------------------------------
(* config.py *)

API_KEY == "api_key"

ConfigKeys == {API_KEY, "x"}
ConfigValues == {"", "FILEKEY", "1"}
EnvValues == {Unset, "", "ENVKEY"}

MaxFileEntries == 2
MaxWrites == 3

RECURSIVE SeqsUpTo(_, _)
SeqsUpTo(S, n) ==
    IF n = 0
    THEN {<< >>}
    ELSE LET shorter == SeqsUpTo(S, n - 1)
         IN  shorter \cup {Append(s, x) : s \in shorter, x \in S}

NoFile == [exists |-> FALSE, text |-> MalformedText]

\* The config files a user may start with: none, one that is not JSON, and
\* JSON objects of strings.
ConfigFiles ==
    {NoFile, [exists |-> TRUE, text |-> MalformedText]}
    \cup {[exists |-> TRUE, text |-> [wf |-> TRUE, pairs |-> p]] :
            p \in SeqsUpTo(ConfigKeys \X ConfigValues, MaxFileEntries)}

\* load_config raises when the file exists and json.load raises.
load_config_raises(f) == f.exists /\ JsonRaises(f.text)

load_config(f) == IF f.exists THEN JsonLoad(f.text) ELSE EmptyDict

\* save_config: the file is rewritten whole with the dump of config.
save_config(config) == [exists |-> TRUE, text |-> JsonDump(config)]

get_api_key_FileFirst(e, f) ==
    IF ~load_config_raises(f) /\ DictHas(load_config(f), API_KEY)
    THEN DictGet(load_config(f), API_KEY, None)
    ELSE IF e = Unset THEN None ELSE e

get_api_key(e, f) ==
    LET env_key == IF e = Unset THEN None ELSE e
    IN  IF Truthy(env_key)
        THEN env_key
        ELSE IF load_config_raises(f)
             THEN JSONDecodeError
             ELSE DictGet(load_config(f), API_KEY, None)

set_config_value_Overwrite(f, key, value) ==
    save_config(DictSet(EmptyDict, key, value))

\* The file set_config_value(key, value) leaves, given that load_config returns.
set_config_value(f, key, value) ==
    save_config(DictSet(load_config(f), key, value))

set_api_key(f, api_key) ==
    save_config(DictSet(load_config(f), API_KEY, api_key))

\* No CLI command is running.
CliIdle ==
    /\ cmd = "none"
    /\ cliArgs = [none |-> TRUE]
    /\ as_json = FALSE
    /\ pc = "idle"
    /\ client = "none"
    /\ plan = << >>
    /\ results = << >>
    /\ issued = << >>
    /\ exc = None
    /\ printed = << >>
    /\ exitCode = -1

CfgInit ==
    /\ env \in EnvValues
    /\ file \in ConfigFiles
    /\ file0 = file
    /\ written = [k \in ConfigKeys |-> Never]
    /\ writes = 0
    /\ cfgOp = "none"
    /\ ret = None
    /\ loaded = EmptyDict
    /\ apiOp = "none"
    /\ apiArgs = [none |-> TRUE]
    /\ sent = << >>
    /\ transport = [fault |-> TRUE, status |-> 0, body |-> MalformedText]
    /\ raised = None
    /\ result = EmptyDict
    /\ CliIdle

GetApiKey ==
    /\ cfgOp' = "get_api_key"
    /\ ret' = get_api_key(env, file)
    /\ UNCHANGED <<env, file, file0, written, writes, loaded>>
    /\ UNCHANGED <<apiVars, cliVars>>

LoadConfig ==
    /\ cfgOp' = "load_config"
    /\ IF load_config_raises(file)
       THEN ret' = JSONDecodeError /\ UNCHANGED loaded
       ELSE ret' = None /\ loaded' = load_config(file)
    /\ UNCHANGED <<env, file, file0, written, writes>>
    /\ UNCHANGED <<apiVars, cliVars>>

SetConfigValue(key, value) ==
    /\ writes < MaxWrites
    /\ cfgOp' = "set_config_value"
    /\ IF load_config_raises(file)
       THEN /\ ret' = JSONDecodeError
            /\ UNCHANGED <<file, written, writes>>
       ELSE /\ ret' = None
            /\ file' = set_config_value(file, key, value)
            /\ written' = [written EXCEPT ![key] = value]
            /\ writes' = writes + 1
    /\ UNCHANGED <<env, file0, loaded>>
    /\ UNCHANGED <<apiVars, cliVars>>

SetApiKey(api_key) ==
    /\ writes < MaxWrites
    /\ cfgOp' = "set_api_key"
    /\ IF load_config_raises(file)
       THEN /\ ret' = JSONDecodeError
            /\ UNCHANGED <<file, written, writes>>
       ELSE /\ ret' = None
            /\ file' = set_api_key(file, api_key)
            /\ written' = [written EXCEPT ![API_KEY] = api_key]
            /\ writes' = writes + 1
    /\ UNCHANGED <<env, file0, loaded>>
    /\ UNCHANGED <<apiVars, cliVars>>

CfgNext ==
    \/ GetApiKey
    \/ LoadConfig
    \/ \E key \in ConfigKeys, value \in ConfigValues : SetConfigValue(key, value)
    \/ \E api_key \in ConfigValues : SetApiKey(api_key)

\* config.py used on its own: no client is involved.
SpecConfig == CfgInit /\ [][CfgNext]_vars

-----------------------------------------------------------------------------
(* api.py *)

\* A keyword argument (params=, json=) of client.request: not passed, or
\* passed as None, is NoKw.
NoKw == [given |-> FALSE, data |-> EmptyDict]

Kw(d) == [given |-> TRUE, data |-> d]

\* One client.request(method, endpoint, **kwargs) call.  An endpoint is the
\* sequence of its path segments: f"/posts/{post_id}" is <<"posts", post_id>>.
Request(method, endpoint, params, json) ==
    [method |-> method, path |-> endpoint, params |-> params, json |-> json]

_request_Retry(method, endpoint, params, json) ==
    <<Request(method, endpoint, params, json), Request(method, endpoint, params, json)>>

\* The client.request calls that _request makes.
_request(method, endpoint, params, json) ==
    <<Request(method, endpoint, params, json)>>

get(endpoint, params) == _request("GET", endpoint, params, NoKw)

post(endpoint, json) == _request("POST", endpoint, NoKw, json)

\* What the transport does with a request: a fault (DNS, refused, timeout),
\* or a response with a status and a body.
Statuses == {200, 401, 500}

Absent == "<absent>"

Member(k, v) == IF v = Absent THEN << >> ELSE <<<<k, v>>>>

ResponseBodies ==
    {MalformedText, [wf |-> TRUE, pairs |-> <<<<"success", JFalse>>, <<"success", JTrue>>>>]}
    \cup {[wf |-> TRUE,
           pairs |-> Member("success", s) \o Member("error", e)
                     \o Member("hint", h) \o Member("has_activity", a)] :
            s \in {Absent, JTrue, JFalse, JNull},
            e \in {Absent, "invalid_token"},
            h \in {Absent, "", "check key"},
            a \in {Absent, JTrue}}

TransportError == "<TransportError>"
HTTPStatusError == "<HTTPStatusError>"

Transports ==
    {[fault |-> TRUE, status |-> 0, body |-> MalformedText]}
    \cup {[fault |-> FALSE, status |-> st, body |-> b] :
            st \in Statuses, b \in ResponseBodies}

_request_raises_ForStatus(t) ==
    IF t.fault THEN TransportError
    ELSE IF t.status >= 400 THEN HTTPStatusError
    ELSE IF JsonRaises(t.body) THEN JSONDecodeError
    ELSE None

\* The exception _request propagates, None when it returns: client.request
\* raises on a transport fault, response.json() on a body that is not JSON.
_request_raises(t) ==
    IF t.fault THEN TransportError
    ELSE IF JsonRaises(t.body) THEN JSONDecodeError
    ELSE None

\* What _request returns when it returns: response.json().
_request_returns(t) == JsonLoad(t.body)

\* Endpoint methods: the client.request calls each makes.
status == get(<<"agents", "status">>, NoKw)

feed(sort, limit) ==
    get(<<"feed">>, Kw(<<<<"sort", sort>>, <<"limit", limit>>>>))

posts(sort, limit, submolt) ==
    LET params0 == <<<<"sort", sort>>, <<"limit", limit>>>>
        params == IF Truthy(submolt) THEN DictSet(params0, "submolt", submolt)
                  ELSE params0
    IN  get(<<"posts">>, Kw(params))

create_post_SendsNone(submolt, content, title, url) ==
    post(<<"posts">>,
         Kw(<<<<"submolt", submolt>>, <<"content", content>>,
              <<"title", title>>, <<"url", url>>>>))

create_post(submolt, content, title, url) ==
    LET data0 == <<<<"submolt", submolt>>, <<"content", content>>>>
        data1 == IF Truthy(title) THEN DictSet(data0, "title", title) ELSE data0
        data == IF Truthy(url) THEN DictSet(data1, "url", url) ELSE data1
    IN  post(<<"posts">>, Kw(data))

get_post(post_id) == get(<<"posts", post_id>>, NoKw)

create_comment(post_id, content, parent_id) ==
    LET data0 == <<<<"content", content>>>>
        data == IF Truthy(parent_id) THEN DictSet(data0, "parent_id", parent_id)
                ELSE data0
    IN  post(<<"posts", post_id, "comments">>, Kw(data))

upvote(post_id) == post(<<"posts", post_id, "upvote">>, NoKw)

downvote(post_id) == post(<<"posts", post_id, "downvote">>, NoKw)

dm_check == get(<<"agents", "dm", "check">>, NoKw)

dm_conversations == get(<<"agents", "dm", "conversations">>, NoKw)

dm_read(conversation_id) ==
    get(<<"agents", "dm", "conversations", conversation_id>>, NoKw)

dm_send(conversation_id, message, needs_human_input) ==
    LET data0 == <<<<"message", message>>>>
        data == IF needs_human_input
                THEN DictSet(data0, "needs_human_input", JTrue)
                ELSE data0
    IN  post(<<"agents", "dm", "conversations", conversation_id, "send">>, Kw(data))

dm_request_BothKeys(to, message, by_owner) ==
    LET data0 == <<<<"message", message>>, <<"to", to>>>>
        data == IF by_owner THEN DictSet(data0, "to_owner", to) ELSE data0
    IN  post(<<"agents", "dm", "request">>, Kw(data))

dm_request(to, message, by_owner) ==
    LET data0 == <<<<"message", message>>>>
        data == IF by_owner
                THEN DictSet(data0, "to_owner", to)
                ELSE DictSet(data0, "to", to)
    IN  post(<<"agents", "dm", "request">>, Kw(data))

dm_requests == get(<<"agents", "dm", "requests">>, NoKw)

dm_approve(conversation_id) ==
    post(<<"agents", "dm", "requests", conversation_id, "approve">>, NoKw)

dm_reject_EmptyObject(conversation_id, block) ==
    LET data == IF block THEN DictSet(EmptyDict, "block", JTrue) ELSE EmptyDict
    IN  post(<<"agents", "dm", "requests", conversation_id, "reject">>, Kw(data))

dm_reject(conversation_id, block) ==
    LET data == IF block THEN DictSet(EmptyDict, "block", JTrue) ELSE EmptyDict
    IN  post(<<"agents", "dm", "requests", conversation_id, "reject">>,
             IF data # EmptyDict THEN Kw(data) ELSE NoKw)

submolts == get(<<"submolts">>, NoKw)

search(query) == get(<<"search">>, Kw(<<<<"q", query>>>>))

\* Inputs
Ids == {"abc", "c42"}
Texts == {"", "hello"}
OptTexts == {None, "", "t1"}
Sorts == {"new", "hot", "top"}
Limits == {"0", "5", "15"}

NoArgs == [none |-> TRUE]

\* A client that has made no call yet; transport is what the transport is
\* going to do with the call's request.
ApiInit ==
    /\ apiOp = "none"
    /\ apiArgs = NoArgs
    /\ sent = << >>
    /\ transport \in Transports
    /\ raised = None
    /\ result = EmptyDict
    /\ env = Unset
    /\ file = NoFile
    /\ file0 = NoFile
    /\ written = [k \in ConfigKeys |-> Never]
    /\ writes = 0
    /\ cfgOp = "none"
    /\ ret = None
    /\ loaded = EmptyDict
    /\ CliIdle

\* One call of an endpoint method: its requests go out, the transport answers,
\* and the method returns or raises what _request does.  Each behaviour makes
\* one call (Fresh): the client keeps nothing from one call to the next.
Fresh == apiOp = "none"

Call(op, args, requests) ==
    /\ apiOp' = op
    /\ apiArgs' = args
    /\ sent' = requests
    /\ raised' = _request_raises(transport)
    /\ result' = IF _request_raises(transport) = None
                 THEN _request_returns(transport)
                 ELSE EmptyDict
    /\ UNCHANGED transport
    /\ UNCHANGED <<cfgVars, cliVars>>

CallStatus ==
    /\ Fresh
    /\ Call("status", NoArgs, status)

CallFeed ==
    /\ Fresh
    /\ \E sort \in Sorts, limit \in Limits :
           Call("feed", [sort |-> sort, limit |-> limit], feed(sort, limit))

CallPosts ==
    /\ Fresh
    /\ \E sort \in Sorts, limit \in Limits, submolt \in OptTexts :
           Call("posts", [sort |-> sort, limit |-> limit, submolt |-> submolt],
                posts(sort, limit, submolt))

CallCreatePost ==
    /\ Fresh
    /\ \E submolt \in Texts, content \in Texts, title \in OptTexts, url \in OptTexts :
           Call("create_post",
                [submolt |-> submolt, content |-> content, title |-> title, url |-> url],
                create_post(submolt, content, title, url))

CallGetPost ==
    /\ Fresh
    /\ \E post_id \in Ids :
           Call("get_post", [post_id |-> post_id], get_post(post_id))

CallCreateComment ==
    /\ Fresh
    /\ \E post_id \in Ids, content \in Texts, parent_id \in OptTexts :
           Call("create_comment",
                [post_id |-> post_id, content |-> content, parent_id |-> parent_id],
                create_comment(post_id, content, parent_id))

CallUpvote ==
    /\ Fresh
    /\ \E post_id \in Ids :
           Call("upvote", [post_id |-> post_id], upvote(post_id))

CallDownvote ==
    /\ Fresh
    /\ \E post_id \in Ids :
           Call("downvote", [post_id |-> post_id], downvote(post_id))

CallDmCheck ==
    /\ Fresh
    /\ Call("dm_check", NoArgs, dm_check)

CallDmConversations ==
    /\ Fresh
    /\ Call("dm_conversations", NoArgs, dm_conversations)

CallDmRead ==
    /\ Fresh
    /\ \E conversation_id \in Ids :
           Call("dm_read", [conversation_id |-> conversation_id], dm_read(conversation_id))

CallDmSend ==
    /\ Fresh
    /\ \E conversation_id \in Ids, message \in Texts, needs_human_input \in BOOLEAN :
           Call("dm_send",
                [conversation_id |-> conversation_id, message |-> message,
                 needs_human_input |-> needs_human_input],
                dm_send(conversation_id, message, needs_human_input))

CallDmRequest ==
    /\ Fresh
    /\ \E to \in Ids, message \in Texts, by_owner \in BOOLEAN :
           Call("dm_request", [to |-> to, message |-> message, by_owner |-> by_owner],
                dm_request(to, message, by_owner))

CallDmRequests ==
    /\ Fresh
    /\ Call("dm_requests", NoArgs, dm_requests)

CallDmApprove ==
    /\ Fresh
    /\ \E conversation_id \in Ids :
           Call("dm_approve", [conversation_id |-> conversation_id],
                dm_approve(conversation_id))

CallDmReject ==
    /\ Fresh
    /\ \E conversation_id \in Ids, block \in BOOLEAN :
           Call("dm_reject", [conversation_id |-> conversation_id, block |-> block],
                dm_reject(conversation_id, block))

CallSubmolts ==
    /\ Fresh
    /\ Call("submolts", NoArgs, submolts)

CallSearch ==
    /\ Fresh
    /\ \E query \in Texts :
           Call("search", [query |-> query], search(query))

ApiNext ==
    \/ CallStatus
    \/ CallFeed
    \/ CallPosts
    \/ CallCreatePost
    \/ CallGetPost
    \/ CallCreateComment
    \/ CallUpvote
    \/ CallDownvote
    \/ CallDmCheck
    \/ CallDmConversations
    \/ CallDmRead
    \/ CallDmSend
    \/ CallDmRequest
    \/ CallDmRequests
    \/ CallDmApprove
    \/ CallDmReject
    \/ CallSubmolts
    \/ CallSearch

\* The client used on its own: the configuration plays no part.
SpecApi == ApiInit /\ [][ApiNext]_vars

-----------------------------------------------------------------------------
(* cli.py *)

\* Terminal output: one item per console.print / click.echo.
Line(text) == [kind |-> "text", text |-> text]
ErrorLine(text) == [kind |-> "error", text |-> text]
HintLine(text) == [kind |-> "hint", text |-> text]
JsonOut(data) == [kind |-> "json", data |-> JsonDump(data)]

\* output_json(data)
output_json(data) == <<JsonOut(data)>>

\* handle_error(response): whether it calls sys.exit(1), and what it prints.
handle_error(response) ==
    LET failed == ~Truthy(DictGet(response, "success", JTrue))
        error == DictGet(response, "error", "Unknown error")
        hint == DictGet(response, "hint", "")
    IN  [exits |-> failed,
         printed |-> IF failed
                     THEN <<ErrorLine(error)>>
                          \o (IF Truthy(hint) THEN <<HintLine(hint)>> ELSE << >>)
                     ELSE << >>]

\* What a command prints for a result that handle_error let through.  The
\* panels, tables and message lists are one item each; their cells are not
\* modelled.
Render(c, a, r) ==
    CASE c = "dm_check" ->
            IF Truthy(DictGet(r, "has_activity", None))
            THEN <<Line(DictGet(r, "summary", "You have activity!"))>>
            ELSE <<Line("No new DM activity.")>>
      [] c = "dm_reject" ->
            IF a.block THEN <<Line("Request rejected and blocked!")>>
            ELSE <<Line("Request rejected!")>>
      [] OTHER -> <<Line(c)>>

\* What heartbeat prints without --json.
HeartbeatText(status_result, dm_result) ==
    <<IF Truthy(DictGet(status_result, "success", None))
      THEN Line("Status OK")
      ELSE ErrorLine(DictGet(status_result, "error", "unknown")),
      IF Truthy(DictGet(dm_result, "has_activity", None))
      THEN Line(DictGet(dm_result, "summary", "DM activity!"))
      ELSE Line("No DM activity"),
      Line("HEARTBEAT_OK")>>

__exit__OnlyOnSuccess(c, e) == IF e = None THEN "closed" ELSE c

\* MoltbookClient.__exit__(*args): close(), whatever exception is passed.
__exit__(c, e) == "closed"

\* Inputs of the commands
CliIds == {"abc"}
CliTexts == {"hello"}
CliOptTexts == {None, "t1"}
CliSorts == {"new", "top"}
CliLimits == {"15"}

\* The config files and environments a command may run in.
CliFiles ==
    {NoFile,
     [exists |-> TRUE, text |-> MalformedText],
     [exists |-> TRUE, text |-> [wf |-> TRUE, pairs |-> <<<<API_KEY, "">>>>]],
     [exists |-> TRUE, text |-> [wf |-> TRUE, pairs |-> <<<<API_KEY, "FILEKEY">>>>]]}

OneCall_Twice(op, requests) ==
    <<[op |-> op, requests |-> requests], [op |-> op, requests |-> requests]>>

\* One client call written inside a with block.
OneCall(op, requests) == <<[op |-> op, requests |-> requests]>>

CliInit ==
    /\ env \in EnvValues
    /\ file \in CliFiles
    /\ file0 = file
    /\ written = [k \in ConfigKeys |-> Never]
    /\ writes = 0
    /\ cfgOp = "none"
    /\ ret = None
    /\ loaded = EmptyDict
    /\ apiOp = "none"
    /\ apiArgs = NoArgs
    /\ sent = << >>
    /\ transport = [fault |-> TRUE, status |-> 0, body |-> MalformedText]
    /\ raised = None
    /\ result = EmptyDict
    /\ CliIdle

\* click dispatches to a command that opens `with get_client() as client:`;
\* calls are the client calls written inside the block.
Start(c, a, j, calls) ==
    /\ cmd' = c
    /\ cliArgs' = a
    /\ as_json' = j
    /\ plan' = calls
    /\ pc' = "get_client"
    /\ UNCHANGED <<client, results, issued, exc, printed, exitCode>>
    /\ UNCHANGED <<cfgVars, apiVars>>

CmdStatus ==
    /\ pc = "idle"
    /\ \E j \in BOOLEAN : Start("status", NoArgs, j, OneCall("status", status))

CmdFeed ==
    /\ pc = "idle"
    /\ \E j \in BOOLEAN, sort \in CliSorts, limit \in CliLimits :
           Start("feed", [sort |-> sort, limit |-> limit], j,
                 OneCall("feed", feed(sort, limit)))

CmdPosts ==
    /\ pc = "idle"
    /\ \E j \in BOOLEAN, sort \in CliSorts, limit \in CliLimits,
          submolt \in CliOptTexts :
           Start("posts", [sort |-> sort, limit |-> limit, submolt |-> submolt], j,
                 OneCall("posts", posts(sort, limit, submolt)))

CmdPost ==
    /\ pc = "idle"
    /\ \E j \in BOOLEAN, submolt \in CliTexts, content \in CliTexts,
          title \in CliOptTexts, url \in CliOptTexts :
           Start("post",
                 [submolt |-> submolt, content |-> content, title |-> title,
                  url |-> url], j,
                 OneCall("create_post", create_post(submolt, content, title, url)))

CmdComment ==
    /\ pc = "idle"
    /\ \E j \in BOOLEAN, post_id \in CliIds, content \in CliTexts,
          parent \in CliOptTexts :
           Start("comment",
                 [post_id |-> post_id, content |-> content, parent |-> parent], j,
                 OneCall("create_comment", create_comment(post_id, content, parent)))

CmdUpvote ==
    /\ pc = "idle"
    /\ \E j \in BOOLEAN, post_id \in CliIds :
           Start("upvote", [post_id |-> post_id], j,
                 OneCall("upvote", upvote(post_id)))

CmdDownvote ==
    /\ pc = "idle"
    /\ \E j \in BOOLEAN, post_id \in CliIds :
           Start("downvote", [post_id |-> post_id], j,
                 OneCall("downvote", downvote(post_id)))

CmdDmCheck ==
    /\ pc = "idle"
    /\ \E j \in BOOLEAN : Start("dm_check", NoArgs, j, OneCall("dm_check", dm_check))

CmdDmList ==
    /\ pc = "idle"
    /\ \E j \in BOOLEAN :
           Start("dm_list", NoArgs, j, OneCall("dm_conversations", dm_conversations))

CmdDmRead ==
    /\ pc = "idle"
    /\ \E j \in BOOLEAN, conversation_id \in CliIds :
           Start("dm_read", [conversation_id |-> conversation_id], j,
                 OneCall("dm_read", dm_read(conversation_id)))

CmdDmSend ==
    /\ pc = "idle"
    /\ \E j \in BOOLEAN, conversation_id \in CliIds, message \in CliTexts,
          human \in BOOLEAN :
           Start("dm_send",
                 [conversation_id |-> conversation_id, message |-> message,
                  human |-> human], j,
                 OneCall("dm_send", dm_send(conversation_id, message, human)))

CmdDmRequest ==
    /\ pc = "idle"
    /\ \E j \in BOOLEAN, to \in CliIds, message \in CliTexts, by_owner \in BOOLEAN :
           Start("dm_request", [to |-> to, message |-> message, by_owner |-> by_owner],
                 j, OneCall("dm_request", dm_request(to, message, by_owner)))

CmdDmRequests ==
    /\ pc = "idle"
    /\ \E j \in BOOLEAN :
           Start("dm_requests", NoArgs, j, OneCall("dm_requests", dm_requests))

CmdDmApprove ==
    /\ pc = "idle"
    /\ \E j \in BOOLEAN, conversation_id \in CliIds :
           Start("dm_approve", [conversation_id |-> conversation_id], j,
                 OneCall("dm_approve", dm_approve(conversation_id)))

CmdDmReject ==
    /\ pc = "idle"
    /\ \E j \in BOOLEAN, conversation_id \in CliIds, block \in BOOLEAN :
           Start("dm_reject", [conversation_id |-> conversation_id, block |-> block],
                 j, OneCall("dm_reject", dm_reject(conversation_id, block)))

CmdSubmolts ==
    /\ pc = "idle"
    /\ \E j \in BOOLEAN : Start("submolts", NoArgs, j, OneCall("submolts", submolts))

CmdSearch ==
    /\ pc = "idle"
    /\ \E j \in BOOLEAN, query \in CliTexts :
           Start("search", [query |-> query], j, OneCall("search", search(query)))

CmdHeartbeat ==
    /\ pc = "idle"
    /\ \E j \in BOOLEAN :
           Start("heartbeat", NoArgs, j,
                 OneCall("status", status) \o OneCall("dm_check", dm_check))

\* config set KEY VALUE: set_config_value, then the confirmation.
CmdConfigSet ==
    /\ pc = "idle"
    /\ \E key \in ConfigKeys, value \in ConfigValues :
          /\ cmd' = "config_set"
          /\ cliArgs' = [key |-> key, value |-> value]
          /\ cfgOp' = "set_config_value"
          /\ IF load_config_raises(file)
             THEN /\ ret' = JSONDecodeError
                  /\ exc' = JSONDecodeError
                  /\ exitCode' = 1
                  /\ UNCHANGED <<file, written, writes, printed>>
             ELSE /\ ret' = None
                  /\ file' = set_config_value(file, key, value)
                  /\ written' = [written EXCEPT ![key] = value]
                  /\ writes' = writes + 1
                  /\ printed' = <<Line("Set")>>
                  /\ exitCode' = 0
                  /\ UNCHANGED exc
    /\ pc' = "done"
    /\ UNCHANGED <<env, file0, loaded, as_json, client, plan, results, issued>>
    /\ UNCHANGED apiVars

\* config show: load_config, then one line per entry (not modelled apart).
CmdConfigShow ==
    /\ pc = "idle"
    /\ cmd' = "config_show"
    /\ cfgOp' = "load_config"
    /\ IF load_config_raises(file)
       THEN /\ ret' = JSONDecodeError
            /\ exc' = JSONDecodeError
            /\ exitCode' = 1
            /\ UNCHANGED <<loaded, printed>>
       ELSE /\ ret' = None
            /\ loaded' = load_config(file)
            /\ printed' = IF load_config(file) = EmptyDict
                          THEN <<Line("No configuration set.")>>
                          ELSE <<Line("config_show")>>
            /\ exitCode' = 0
            /\ UNCHANGED exc
    /\ pc' = "done"
    /\ UNCHANGED <<env, file, file0, written, writes>>
    /\ UNCHANGED <<cliArgs, as_json, client, plan, results, issued>>
    /\ UNCHANGED apiVars

\* get_client(): the key is resolved; without one the command prints the
\* three lines of advice and exits with status 1; with one the client is
\* constructed and __enter__ returns it.  A config file that is not JSON makes
\* get_api_key raise, which ends the process with a traceback (status 1).
GetClient ==
    /\ pc = "get_client"
    /\ cfgOp' = "get_api_key"
    /\ ret' = get_api_key(env, file)
    /\ IF get_api_key(env, file) = JSONDecodeError
       THEN /\ exc' = JSONDecodeError
            /\ pc' = "done"
            /\ exitCode' = 1
            /\ UNCHANGED <<client, printed>>
       ELSE IF ~Truthy(get_api_key(env, file))
       THEN /\ printed' = <<ErrorLine("No API key configured."),
                            Line("moltbook config set api_key YOUR_KEY"),
                            Line("export MOLTBOOK_API_KEY=YOUR_KEY")>>
            /\ pc' = "done"
            /\ exitCode' = 1
            /\ UNCHANGED <<client, exc>>
       ELSE /\ client' = "open"
            /\ pc' = "with"
            /\ UNCHANGED <<exc, printed, exitCode>>
    /\ UNCHANGED <<env, file, file0, written, writes, loaded>>
    /\ UNCHANGED <<cmd, cliArgs, as_json, plan, results, issued>>
    /\ UNCHANGED apiVars

\* The next client call of the with block: its requests go out on the client
\* as it is, and the call returns a dict or raises.
ClientCall ==
    /\ pc = "with"
    /\ exc = None
    /\ plan # << >>
    /\ \E t \in Transports :
          /\ issued' = issued \o [i \in 1..Len(Head(plan).requests) |->
                                    [op |-> Head(plan).op,
                                     request |-> Head(plan).requests[i],
                                     client |-> client]]
          /\ IF _request_raises(t) # None
             THEN exc' = _request_raises(t) /\ UNCHANGED results
             ELSE results' = Append(results, _request_returns(t)) /\ UNCHANGED exc
    /\ plan' = Tail(plan)
    /\ UNCHANGED <<cmd, cliArgs, as_json, pc, client, printed, exitCode>>
    /\ UNCHANGED <<cfgVars, apiVars>>

\* The with block is left, at its end or by an exception: __exit__ runs, and
\* an exception goes on to end the process with a traceback (status 1).
WithExit ==
    /\ pc = "with"
    /\ plan = << >> \/ exc # None
    /\ client' = __exit__(client, exc)
    /\ IF exc # None
       THEN pc' = "done" /\ exitCode' = 1
       ELSE pc' = "output" /\ UNCHANGED exitCode
    /\ UNCHANGED <<cmd, cliArgs, as_json, plan, results, issued, exc, printed>>
    /\ UNCHANGED <<cfgVars, apiVars>>

\* `if as_json: output_json(result); return` of every command but heartbeat.
OutputJson ==
    /\ pc = "output"
    /\ cmd # "heartbeat"
    /\ as_json
    /\ printed' = output_json(results[1])
    /\ exitCode' = 0
    /\ pc' = "done"
    /\ UNCHANGED <<cmd, cliArgs, as_json, client, plan, results, issued, exc>>
    /\ UNCHANGED <<cfgVars, apiVars>>

\* handle_error(result), then the command's rendering of the result.
OutputText ==
    /\ pc = "output"
    /\ cmd # "heartbeat"
    /\ ~as_json
    /\ IF handle_error(results[1]).exits
       THEN /\ printed' = handle_error(results[1]).printed
            /\ exitCode' = 1
       ELSE /\ printed' = Render(cmd, cliArgs, results[1])
            /\ exitCode' = 0
    /\ pc' = "done"
    /\ UNCHANGED <<cmd, cliArgs, as_json, client, plan, results, issued, exc>>
    /\ UNCHANGED <<cfgVars, apiVars>>

\* heartbeat --json: both results in one object.
HeartbeatJson ==
    /\ pc = "output"
    /\ cmd = "heartbeat"
    /\ as_json
    /\ printed' = output_json(<<<<"status", results[1]>>, <<"dm", results[2]>>>>)
    /\ exitCode' = 0
    /\ pc' = "done"
    /\ UNCHANGED <<cmd, cliArgs, as_json, client, plan, results, issued, exc>>
    /\ UNCHANGED <<cfgVars, apiVars>>

\* heartbeat without --json: a status line, a DM line, HEARTBEAT_OK.
HeartbeatOutput ==
    /\ pc = "output"
    /\ cmd = "heartbeat"
    /\ ~as_json
    /\ printed' = HeartbeatText(results[1], results[2])
    /\ exitCode' = 0
    /\ pc' = "done"
    /\ UNCHANGED <<cmd, cliArgs, as_json, client, plan, results, issued, exc>>
    /\ UNCHANGED <<cfgVars, apiVars>>

CliNext ==
    \/ CmdStatus
    \/ CmdFeed
    \/ CmdPosts
    \/ CmdPost
    \/ CmdComment
    \/ CmdUpvote
    \/ CmdDownvote
    \/ CmdDmCheck
    \/ CmdDmList
    \/ CmdDmRead
    \/ CmdDmSend
    \/ CmdDmRequest
    \/ CmdDmRequests
    \/ CmdDmApprove
    \/ CmdDmReject
    \/ CmdSubmolts
    \/ CmdSearch
    \/ CmdHeartbeat
    \/ CmdConfigSet
    \/ CmdConfigShow
    \/ GetClient
    \/ ClientCall
    \/ WithExit
    \/ OutputJson
    \/ OutputText
    \/ HeartbeatJson
    \/ HeartbeatOutput

\* One invocation of the moltbook command, from dispatch to exit.
SpecCli == CliInit /\ [][CliNext]_vars

-----------------------------------------------------------------------------
(* Claims about config.py, checked under SpecConfig *)

\* What a JSON text stores under key k: the value of the last member named k.
HasMember(text, k) == \E i \in 1..Len(text.pairs) : text.pairs[i][1] = k

LastMember(text, k) ==
    LET i == CHOOSE j \in 1..Len(text.pairs) :
                /\ text.pairs[j][1] = k
                /\ \A m \in (j + 1)..Len(text.pairs) : text.pairs[m][1] # k
    IN  text.pairs[i][2]

StoresApiKey(f) == f.exists /\ f.text.wf /\ HasMember(f.text, API_KEY)

\* C1 as stated: get_api_key returns the environment variable's value whenever
\* the variable is set, otherwise the api_key stored in the config file, and
\* None when neither exists (read here for config files that load_config can
\* load: a missing file or a JSON object).
C1_AsStated ==
    (cfgOp = "get_api_key" /\ ~load_config_raises(file)) =>
        ret = IF env # Unset THEN env
              ELSE IF StoresApiKey(file) THEN LastMember(file.text, API_KEY)
              ELSE None

\* C1 (amended): get_api_key returns the environment variable's value when the
\* variable is set to a non-empty string; when it is unset or empty, the call
\* raises the parse error if the config file exists and is not JSON, and
\* otherwise returns the value stored under api_key, or None when the file is
\* missing or stores no api_key.
C1_CredentialResolution ==
    cfgOp = "get_api_key" =>
        ret = IF env \notin {Unset, ""} THEN env
              ELSE IF file.exists /\ ~file.text.wf THEN JSONDecodeError
              ELSE IF StoresApiKey(file) THEN LastMember(file.text, API_KEY)
              ELSE None

C1_Witness ==
    /\ cfgOp = "get_api_key"
    /\ env = ""
    /\ StoresApiKey(file)
    /\ ret = "FILEKEY"

\* C2: from a well-formed (or missing) config file, after any sequence of
\* set_config_value / set_api_key calls, load_config() returns without raising
\* a dict in which every written key holds the value of its last write and
\* every key of the original map that was never written holds its original
\* value.
C2_ReadModifyWrite ==
    (cfgOp = "load_config" /\ ~load_config_raises(file0)) =>
        /\ ret = None
        /\ \A k \in ConfigKeys :
              IF written[k] # Never
              THEN DictHas(loaded, k) /\ DictGet(loaded, k, None) = written[k]
              ELSE HasMember(file0.text, k) /\ file0.exists =>
                     /\ DictHas(loaded, k)
                     /\ DictGet(loaded, k, None) = LastMember(file0.text, k)

C2_Witness ==
    /\ cfgOp = "load_config"
    /\ writes >= 2
    /\ written[API_KEY] = "1"
    /\ written["x"] = Never
    /\ file0.exists /\ HasMember(file0.text, "x")
    /\ DictGet(loaded, "x", None) = "FILEKEY"
    /\ DictGet(loaded, API_KEY, None) = "1"

-----------------------------------------------------------------------------
(* Claims about api.py, checked under SpecApi *)

Called == apiOp # "none"

\* The body (json=) and the query (params=) of the call's first request.
Body == sent[1].json.data

Query == sent[1].params.data

Holds(d, k, v) == DictHas(d, k) /\ DictGet(d, k, None) = v

\* C3: whenever the transport delivers a response whose body parses, whatever
\* its status and its success field, the method raises nothing and returns
\* exactly the parsed body: the same keys, each with the value the body gives.
C3_ReturnsParsedBody ==
    (Called /\ ~transport.fault /\ transport.body.wf) =>
        /\ raised = None
        /\ DictKeys(result) = {transport.body.pairs[i][1] :
                                 i \in 1..Len(transport.body.pairs)}
        /\ Len(result) = Cardinality(DictKeys(result))
        /\ \A k \in DictKeys(result) :
              DictGet(result, k, None) = LastMember(transport.body, k)

C3_Witness ==
    /\ apiOp = "status"
    /\ transport.status = 401
    /\ raised = None
    /\ result = <<<<"success", JFalse>>, <<"error", "invalid_token">>,
                  <<"hint", "check key">>>>

\* An optional input as C4 states it: the key is sent exactly when the input
\* is supplied (not None), with the supplied value.
SentIffSupplied(d, k, v) ==
    IF v = None THEN ~DictHas(d, k) ELSE Holds(d, k, v)

\* An optional input as the code treats it: the key is sent exactly when the
\* input is truthy (neither None nor the empty string), with that value.
SentIffTruthy(d, k, v) ==
    IF Truthy(v) THEN Holds(d, k, v) ELSE ~DictHas(d, k)

SentIffTrue(d, k, flag) ==
    IF flag THEN Holds(d, k, JTrue) ELSE ~DictHas(d, k)

\* C4 as stated: the key of an optional input is omitted when the input is
\* absent or false and sent with the supplied value when the input is
\* supplied; the required keys are always sent.
C4_AsStated ==
    /\ apiOp = "create_post" =>
          /\ sent[1].json.given
          /\ Holds(Body, "submolt", apiArgs.submolt)
          /\ Holds(Body, "content", apiArgs.content)
          /\ SentIffSupplied(Body, "title", apiArgs.title)
          /\ SentIffSupplied(Body, "url", apiArgs.url)
    /\ apiOp = "create_comment" =>
          /\ sent[1].json.given
          /\ Holds(Body, "content", apiArgs.content)
          /\ SentIffSupplied(Body, "parent_id", apiArgs.parent_id)
    /\ apiOp = "dm_send" =>
          /\ sent[1].json.given
          /\ Holds(Body, "message", apiArgs.message)
          /\ SentIffTrue(Body, "needs_human_input", apiArgs.needs_human_input)
    /\ apiOp = "posts" =>
          /\ sent[1].params.given
          /\ Holds(Query, "sort", apiArgs.sort)
          /\ Holds(Query, "limit", apiArgs.limit)
          /\ SentIffSupplied(Query, "submolt", apiArgs.submolt)

\* C4 (amended): the key of an optional input is omitted when the input is
\* absent, the empty string or false (never sent as null, "" or false) and
\* sent with the supplied value when the input is a non-empty string or true;
\* the required keys are always sent, and no other key is.
C4_OptionalFieldOmission ==
    /\ apiOp = "create_post" =>
          /\ sent[1].json.given
          /\ DictKeys(Body) \subseteq {"submolt", "content", "title", "url"}
          /\ Holds(Body, "submolt", apiArgs.submolt)
          /\ Holds(Body, "content", apiArgs.content)
          /\ SentIffTruthy(Body, "title", apiArgs.title)
          /\ SentIffTruthy(Body, "url", apiArgs.url)
    /\ apiOp = "create_comment" =>
          /\ sent[1].json.given
          /\ DictKeys(Body) \subseteq {"content", "parent_id"}
          /\ Holds(Body, "content", apiArgs.content)
          /\ SentIffTruthy(Body, "parent_id", apiArgs.parent_id)
    /\ apiOp = "dm_send" =>
          /\ sent[1].json.given
          /\ DictKeys(Body) \subseteq {"message", "needs_human_input"}
          /\ Holds(Body, "message", apiArgs.message)
          /\ SentIffTrue(Body, "needs_human_input", apiArgs.needs_human_input)
    /\ apiOp = "posts" =>
          /\ sent[1].params.given
          /\ DictKeys(Query) \subseteq {"sort", "limit", "submolt"}
          /\ Holds(Query, "sort", apiArgs.sort)
          /\ Holds(Query, "limit", apiArgs.limit)
          /\ SentIffTruthy(Query, "submolt", apiArgs.submolt)

C4_Witness ==
    /\ apiOp = "create_post"
    /\ apiArgs.title = ""
    /\ apiArgs.url = "t1"
    /\ Body = <<<<"submolt", "hello">>, <<"content", "hello">>, <<"url", "t1">>>>

\* C5: the body of dm_request holds message and exactly one of to and
\* to_owner: to_owner with the recipient when by_owner is true, to with the
\* recipient when it is false.
C5_DmRequestRecipientKey ==
    apiOp = "dm_request" =>
        /\ sent[1].json.given
        /\ Holds(Body, "message", apiArgs.message)
        /\ IF apiArgs.by_owner
           THEN Holds(Body, "to_owner", apiArgs.to) /\ ~DictHas(Body, "to")
           ELSE Holds(Body, "to", apiArgs.to) /\ ~DictHas(Body, "to_owner")

C5_Witness ==
    /\ apiOp = "dm_request"
    /\ apiArgs.by_owner
    /\ Body = <<<<"message", "hello">>, <<"to_owner", "c42">>>>

\* C6: dm_reject makes a POST to the reject path of the conversation; with
\* block false it carries no JSON payload, with block true its body is exactly
\* {block: true}.
C6_DmRejectBody ==
    apiOp = "dm_reject" =>
        /\ sent[1].method = "POST"
        /\ sent[1].path =
              <<"agents", "dm", "requests", apiArgs.conversation_id, "reject">>
        /\ IF apiArgs.block
           THEN sent[1].json.given /\ Body = <<<<"block", JTrue>>>>
           ELSE ~sent[1].json.given

C6_Witness ==
    /\ apiOp = "dm_reject"
    /\ ~apiArgs.block
    /\ sent[1].json = NoKw
    /\ sent[1].path = <<"agents", "dm", "requests", "c42", "reject">>

\* The method and path the specification's table maps each operation to.
GetOps ==
    {"status", "feed", "posts", "get_post", "dm_check", "dm_conversations",
     "dm_read", "dm_requests", "submolts", "search"}

PostOps ==
    {"create_post", "create_comment", "upvote", "downvote", "dm_send",
     "dm_request", "dm_approve", "dm_reject"}

TablePath(op, a) ==
    CASE op = "status" -> <<"agents", "status">>
      [] op = "feed" -> <<"feed">>
      [] op = "posts" -> <<"posts">>
      [] op = "create_post" -> <<"posts">>
      [] op = "get_post" -> <<"posts", a.post_id>>
      [] op = "create_comment" -> <<"posts", a.post_id, "comments">>
      [] op = "upvote" -> <<"posts", a.post_id, "upvote">>
      [] op = "downvote" -> <<"posts", a.post_id, "downvote">>
      [] op = "dm_check" -> <<"agents", "dm", "check">>
      [] op = "dm_conversations" -> <<"agents", "dm", "conversations">>
      [] op = "dm_read" -> <<"agents", "dm", "conversations", a.conversation_id>>
      [] op = "dm_send" ->
            <<"agents", "dm", "conversations", a.conversation_id, "send">>
      [] op = "dm_request" -> <<"agents", "dm", "request">>
      [] op = "dm_requests" -> <<"agents", "dm", "requests">>
      [] op = "dm_approve" ->
            <<"agents", "dm", "requests", a.conversation_id, "approve">>
      [] op = "dm_reject" ->
            <<"agents", "dm", "requests", a.conversation_id, "reject">>
      [] op = "submolts" -> <<"submolts">>
      [] op = "search" -> <<"search">>

\* C8: a call of an operation makes exactly one HTTP request, with GET or POST
\* as the operation is mapped, to the operation's path with the call's post or
\* conversation id substituted.
C8_OneRequestPerOperation ==
    Called =>
        /\ apiOp \in GetOps \cup PostOps
        /\ Len(sent) = 1
        /\ sent[1].method = (IF apiOp \in GetOps THEN "GET" ELSE "POST")
        /\ sent[1].path = TablePath(apiOp, apiArgs)

C8_Witness ==
    /\ apiOp = "create_comment"
    /\ raised = TransportError
    /\ Len(sent) = 1
    /\ sent[1].method = "POST"
    /\ sent[1].path = <<"posts", "c42", "comments">>

-----------------------------------------------------------------------------
(* Claims about cli.py, checked under SpecCli *)

Printed(kind) == {i \in 1..Len(printed) : printed[i].kind = kind}

\* C7: a client obtained by `with get_client() as client:` is closed once the
\* block is left, at its end or by an exception raised inside it, so it is
\* closed when the command terminates; and every request of a command is made
\* on an open client.
C7_GuaranteedRelease ==
    /\ (pc \in {"output", "done"} /\ client # "none") => client = "closed"
    /\ \A i \in 1..Len(issued) : issued[i].client = "open"
    /\ pc = "with" => client = "open"

C7_Witness ==
    /\ pc = "done"
    /\ cmd = "heartbeat"
    /\ Len(results) = 1
    /\ Len(issued) = 2
    /\ exc = TransportError
    /\ client = "closed"
    /\ exitCode = 1

\* A result that reports an application-level failure: success is false.
Failure(r) == DictHas(r, "success") /\ DictGet(r, "success", None) = JFalse

\* C9: whenever a client call of a command returned an envelope whose success
\* field is false, the command shows the error message (and the hint, when the
\* envelope has a non-empty one) and terminates with a non-zero exit status, in
\* every command and output mode.
C9_FailureExitsNonZero ==
    (pc = "done" /\ exc = None /\ \E i \in 1..Len(results) : Failure(results[i])) =>
        /\ exitCode # 0
        /\ \A i \in 1..Len(results) :
              Failure(results[i]) =>
                /\ \E n \in Printed("error") :
                      printed[n].text = DictGet(results[i], "error", "Unknown error")
                /\ Truthy(DictGet(results[i], "hint", "")) =>
                      \E n \in Printed("hint") :
                          printed[n].text = DictGet(results[i], "hint", "")

\* C10: a command whose client calls all returned mappings without a success
\* field ends as it does for success=true: it reports no error and exits with
\* status 0.
C10_MissingSuccessIsSuccess ==
    (/\ pc = "done"
     /\ exc = None
     /\ results # << >>
     /\ \A i \in 1..Len(results) : ~DictHas(results[i], "success")) =>
        /\ exitCode = 0
        /\ Printed("error") = {}

\* The client operations the command has executed, in order: each issues one
\* request (C8).
Executed == [i \in 1..Len(issued) |-> issued[i].op]

\* The command got a client and left its with block without an exception.
RanThrough == pc \in {"output", "done"} /\ client # "none" /\ exc = None

\* C11 as stated: an invocation never performs two or more client operations,
\* and one that got a client and ran through performed exactly one.
C11_AsStated ==
    /\ Len(Executed) <= 1
    /\ RanThrough => Len(Executed) = 1

\* C11 (amended): every command other than heartbeat performs at most one
\* client operation per invocation, exactly one when it got a client and ran
\* through, and none for config set and config show; heartbeat performs two in
\* the same with block, status and then dm_check (only status when status
\* raises), before it exits.
C11_OperationsPerInvocation ==
    /\ cmd \in {"none", "config_set", "config_show"} => Executed = << >>
    /\ cmd = "heartbeat" =>
          /\ Executed \in {<< >>, <<"status">>, <<"status", "dm_check">>}
          /\ RanThrough => Executed = <<"status", "dm_check">>
          /\ Executed = <<"status">> => (pc = "with" \/ exc # None)
    /\ cmd \notin {"none", "config_set", "config_show", "heartbeat"} =>
          /\ Len(Executed) <= 1
          /\ RanThrough => Len(Executed) = 1
    /\ client = "none" => Executed = << >>

C11_Witness ==
    /\ pc = "done"
    /\ cmd = "heartbeat"
    /\ exc = None
    /\ exitCode = 0
    /\ Executed = <<"status", "dm_check">>
    /\ Len(results) = 2

====
